---------------------------- MODULE Spec2Model ----------------------------
(***************************************************************************)
(* Pulse-propagation network of src/src/day20.rs: the module registry      *)
(* (set_up_modules), the three module behaviours, the FIFO event queue     *)
(* and its drain, part_1 (bulk counting with the cycle shortcut), the      *)
(* periodicity analyzer behind part_2, and merge_periods.                  *)
(*                                                                         *)
(* Module ids are the code's 0-based indices; a module collection is a     *)
(* function over 0..n-1.  A graph description is a sequence of lines, each *)
(* line the three parts the code splits it into: the marker character, the *)
(* name and the list of output names.                                      *)
(***************************************************************************)
EXTENDS Integers, Sequences, FiniteSets, TLC

\* ------------------------------------------------------------------ bounds

\* A drain that has delivered MaxDrain events stops being counted (the
\* counters are the only part of the state that grows in a drain that never
\* ends; module state and queue go on exactly as in the code).
MaxDrain == 40

\* merge_periods is applied to records of period 1..MaxPeriod with at most
\* MaxPulses entries each.
MaxPeriod == 3
MaxPulses == 2
\* Presses a schedule is compared with the simulation for
MaxAhead == 4

\* ------------------------------------------------------- program constants

\* part_1's press budget (the literal 1000 of the detection loop and of the
\* extrapolation).
NumPresses == 1000

\* ------------------------------------------------------------------ Pulse

Pulse == {"High", "Low"}

\* impl Not for Pulse
Not(p) == IF p = "High" THEN "Low" ELSE "High"

\* #[derive(PartialOrd, Ord)] on Pulse: High is declared first, so High < Low.
PulseRank(p) == IF p = "High" THEN 0 ELSE 1

\* ------------------------------------------------------------ PulseCounter

\* PulseCounter::default()
ZeroCounter == [high |-> 0, low |-> 0]

\* impl AddAssign<Pulse> for PulseCounter
CounterAddPulse(c, p) ==
    IF p = "High" THEN [c EXCEPT !.high = @ + 1] ELSE [c EXCEPT !.low = @ + 1]

\* impl Add<PulseCounter> for PulseCounter
CounterAdd(c, d) == [high |-> c.high + d.high, low |-> c.low + d.low]

\* impl Mul<usize> for PulseCounter
CounterMul(c, k) == [high |-> c.high * k, low |-> c.low * k]

\* impl From<PulseCounter> for usize
CounterProduct(c) == c.high * c.low

\* ------------------------------------------------------------- EventQueue

\* struct Event
Event(from, target, pulse) == [from |-> from, target |-> target, pulse |-> pulse]

\* Variant of push: the events go to the front of the queue (push_front)
push_front(q, events) == events \o q

\* EventQueue::push (VecDeque::push_back), for the events of one reaction in
\* the order they are pushed
push(q, events) == q \o events

\* EventQueue::pop (VecDeque::pop_front) on a queue that is not empty
pop(q) == [event |-> Head(q), queue |-> Tail(q)]

\* Variant of the push loop: the outputs are gone through from the last one
PushAll_reversed(id, outputs, pulse) ==
    [k \in 1..Len(outputs) |-> Event(id, outputs[Len(outputs) + 1 - k], pulse)]

\* `for target in &self.outputs { event_queue.push(self.id, *target, pulse) }`:
\* the events one reaction pushes, in push order
PushAll(id, outputs, pulse) ==
    [k \in 1..Len(outputs) |-> Event(id, outputs[k], pulse)]

\* What a reception results in: the module after it, the events it pushed
\* (in push order), and the panic that ended it ("none": no panic).
Reaction(m, pushed) == [module |-> m, pushed |-> pushed, panic |-> "none"]
Panicked(m, kind) == [module |-> m, pushed |-> <<>>, panic |-> kind]

\* -------------------------------------------------------- module behaviour

\* Variant of Broadcaster::receive_pulse: Low is sent whatever was received
Broadcaster_receive_pulse_always_low(m, input, pulse) ==
    Reaction(m, PushAll(m.id, m.outputs, "Low"))

\* Variant of Broadcaster::receive_pulse: only the first output is sent to
Broadcaster_receive_pulse_first_only(m, input, pulse) ==
    Reaction(m, PushAll(m.id, IF m.outputs = <<>> THEN <<>> ELSE << m.outputs[1] >>, pulse))

\* Variant of Broadcaster::receive_pulse: without outputs the pulse goes back
\* to its sender
Broadcaster_receive_pulse_echo(m, input, pulse) ==
    Reaction(m, PushAll(m.id, IF m.outputs = <<>> THEN << input >> ELSE m.outputs, pulse))

\* Broadcaster::receive_pulse
Broadcaster_receive_pulse(m, input, pulse) ==
    Reaction(m, PushAll(m.id, m.outputs, pulse))

\* Variant of FlipFlop::receive_pulse: the state before the toggle is sent
FlipFlop_receive_pulse_old_state(m, input, pulse) ==
    IF pulse = "Low"
    THEN Reaction([m EXCEPT !.state = Not(m.state)], PushAll(m.id, m.outputs, m.state))
    ELSE Reaction(m, <<>>)

\* Variant of FlipFlop::receive_pulse: the pulse is not looked at
FlipFlop_receive_pulse_any(m, input, pulse) ==
    LET state == Not(m.state)
    IN  Reaction([m EXCEPT !.state = state], PushAll(m.id, m.outputs, state))

\* FlipFlop::receive_pulse
FlipFlop_receive_pulse(m, input, pulse) ==
    IF pulse = "Low"
    THEN LET state == Not(m.state)
         IN  Reaction([m EXCEPT !.state = state], PushAll(m.id, m.outputs, state))
    ELSE Reaction(m, <<>>)

\* Variant of the memory update: num_high moves on every pulse, whatever the
\* slot held
Conjunction_update_memory_unchecked(m, input, pulse) ==
    IF input \notin DOMAIN m.memory
    THEN [panic |-> "index", module |-> m]
    ELSE IF m.memory[input] = "None"
    THEN [panic |-> "unwrap", module |-> m]
    ELSE IF pulse = "High"
    THEN [panic |-> "none",
          module |-> [m EXCEPT !.num_high = @ + 1, !.memory[input] = "High"]]
    ELSE IF m.num_high = 0
         THEN [panic |-> "overflow", module |-> m]
         ELSE [panic |-> "none",
               module |-> [m EXCEPT !.num_high = @ - 1, !.memory[input] = "Low"]]

\* Variant of the memory update: storing a pulse forgets what the other
\* inputs sent
Conjunction_update_memory_reset_others(m, input, pulse) ==
    IF input \notin DOMAIN m.memory
    THEN [panic |-> "index", module |-> m]
    ELSE IF m.memory[input] = "None"
    THEN [panic |-> "unwrap", module |-> m]
    ELSE [panic |-> "none",
          module |-> [m EXCEPT !.num_high = IF pulse = "High" THEN 1 ELSE 0,
                               !.memory = [i \in DOMAIN m.memory |->
                                              IF i = input THEN pulse
                                              ELSE IF m.memory[i] = "None" THEN "None"
                                              ELSE "Low"]]]

\* Conjunction::receive_pulse, the memory update (the match on the pulse).
\* memory[input] panics when there is no such slot ("index") and the unwrap
\* panics on an unset slot ("unwrap"); num_high -= 1 on 0 is an overflow.
Conjunction_update_memory(m, input, pulse) ==
    IF input \notin DOMAIN m.memory
    THEN [panic |-> "index", module |-> m]
    ELSE IF m.memory[input] = "None"
    THEN [panic |-> "unwrap", module |-> m]
    ELSE IF pulse = "High"
    THEN IF m.memory[input] = "Low"
         THEN [panic |-> "none",
               module |-> [m EXCEPT !.num_high = @ + 1, !.memory[input] = "High"]]
         ELSE [panic |-> "none", module |-> m]
    ELSE IF m.memory[input] = "High"
         THEN IF m.num_high = 0
              THEN [panic |-> "overflow", module |-> m]
              ELSE [panic |-> "none",
                    module |-> [m EXCEPT !.num_high = @ - 1, !.memory[input] = "Low"]]
         ELSE [panic |-> "none", module |-> m]

\* Conjunction::receive_pulse, the pulse to send after the update
Conjunction_pulse_to_send(m) ==
    IF m.num_high = m.total_registered THEN "Low" ELSE "High"

\* Variant of Conjunction::receive_pulse: the pulse to send is decided before
\* the memory update
Conjunction_receive_pulse_stale(m, input, pulse) ==
    LET u == Conjunction_update_memory(m, input, pulse)
    IN  IF u.panic # "none"
        THEN Panicked(m, u.panic)
        ELSE Reaction(u.module,
                      PushAll(m.id, m.outputs, Conjunction_pulse_to_send(m)))

\* Conjunction::receive_pulse
Conjunction_receive_pulse(m, input, pulse) ==
    LET u == Conjunction_update_memory(m, input, pulse)
    IN  IF u.panic # "none"
        THEN Panicked(m, u.panic)
        ELSE Reaction(u.module,
                      PushAll(m.id, m.outputs, Conjunction_pulse_to_send(u.module)))

\* Variant of Module::receive_pulse: the pulse is not counted
Module_receive_pulse_uncounted(m, input, pulse) ==
    CASE m.variant = "Broadcaster" -> Broadcaster_receive_pulse(m, input, pulse)
      [] m.variant = "FlipFlop"    -> FlipFlop_receive_pulse(m, input, pulse)
      [] m.variant = "Conjunction" -> Conjunction_receive_pulse(m, input, pulse)

\* Module::receive_pulse: count the pulse, then dispatch on the variant
Module_receive_pulse(m, input, pulse) ==
    LET counted == [m EXCEPT !.counts = CounterAddPulse(@, pulse)]
    IN  CASE m.variant = "Broadcaster" -> Broadcaster_receive_pulse(counted, input, pulse)
          [] m.variant = "FlipFlop"    -> FlipFlop_receive_pulse(counted, input, pulse)
          [] m.variant = "Conjunction" -> Conjunction_receive_pulse(counted, input, pulse)

\* Variant of Module::is_in_initial_state: a Conjunction always says yes
is_in_initial_state_conjunction_true(m) ==
    CASE m.variant = "Broadcaster" -> TRUE
      [] m.variant = "FlipFlop"    -> m.state = "Low"
      [] m.variant = "Conjunction" -> TRUE

\* Module::is_in_initial_state, dispatching to the three variants
is_in_initial_state(m) ==
    CASE m.variant = "Broadcaster" -> TRUE
      [] m.variant = "FlipFlop"    -> m.state = "Low"
      [] m.variant = "Conjunction" -> m.num_high = 0

\* Module::is_broadcaster
is_broadcaster(m) == m.variant = "Broadcaster"

\* ---------------------------------------------------------------- registry

\* One line of the description: marker, name, output names.
Line(marker, name, outs) == [marker |-> marker, name |-> name, outs |-> outs]

\* make_mod_names_map: collecting (name, index) pairs into a HashMap keeps,
\* for a name declared on several lines, the last index.
NamesOf(lines) == {lines[k].name : k \in 1..Len(lines)}
make_mod_names_map(lines) ==
    [n \in NamesOf(lines) |->
        CHOOSE i \in 0..(Len(lines) - 1) :
            /\ lines[i + 1].name = n
            /\ \A j \in 0..(Len(lines) - 1) : lines[j + 1].name = n => j <= i]

\* Variant of load_outputs: a name the map does not hold resolves to 0
load_outputs_to_first(outs, mod_names) ==
    [k \in 1..Len(outs) |->
        IF outs[k] \in DOMAIN mod_names THEN mod_names[outs[k]] ELSE 0]

\* load_outputs: a name the map does not hold resolves to the map's size
load_outputs(outs, mod_names) ==
    [k \in 1..Len(outs) |->
        IF outs[k] \in DOMAIN mod_names
        THEN mod_names[outs[k]]
        ELSE Cardinality(DOMAIN mod_names)]

\* Module::new with Broadcaster::new, FlipFlop::new and Conjunction::new.
\* The variant-specific fields of the other variants stay at their defaults.
Module_new(id, line, mod_names) ==
    [name |-> line.name,
     variant |-> CASE line.marker = "%" -> "FlipFlop"
                   [] line.marker = "&" -> "Conjunction"
                   [] OTHER -> "Broadcaster",
     id |-> id,
     outputs |-> load_outputs(line.outs, mod_names),
     inputs |-> <<>>,
     state |-> "Low",
     memory |-> IF line.marker = "&"
                THEN [i \in 0..(Cardinality(DOMAIN mod_names) - 1) |-> "None"]
                ELSE <<>>,
     num_high |-> 0,
     total_registered |-> 0,
     counts |-> ZeroCounter]

\* Variant of Module::register_input_module: the id goes to the front of the
\* inputs
register_input_module_front(m, module) ==
    IF m.variant = "Conjunction"
    THEN IF module \notin DOMAIN m.memory
         THEN [panic |-> "index", module |-> m]
         ELSE IF m.memory[module] # "None"
         THEN [panic |-> "assert", module |-> m]
         ELSE [panic |-> "none",
               module |-> [m EXCEPT !.total_registered = @ + 1,
                                    !.memory[module] = "Low",
                                    !.inputs = << module >> \o @]]
    ELSE [panic |-> "none", module |-> [m EXCEPT !.inputs = << module >> \o @]]

\* Variant of Module::register_input_module: the Conjunction's memory slot
\* is left unset
register_input_module_slot_unset(m, module) ==
    IF m.variant = "Conjunction"
    THEN [panic |-> "none",
          module |-> [m EXCEPT !.total_registered = @ + 1,
                               !.inputs = Append(@, module)]]
    ELSE [panic |-> "none", module |-> [m EXCEPT !.inputs = Append(@, module)]]

\* Variant of Module::register_input_module: without the assertion
register_input_module_unasserted(m, module) ==
    IF m.variant = "Conjunction"
    THEN IF module \notin DOMAIN m.memory
         THEN [panic |-> "index", module |-> m]
         ELSE [panic |-> "none",
               module |-> [m EXCEPT !.total_registered = @ + 1,
                                    !.memory[module] = "Low",
                                    !.inputs = Append(@, module)]]
    ELSE [panic |-> "none", module |-> [m EXCEPT !.inputs = Append(@, module)]]

\* Module::register_input_module: Broadcaster and FlipFlop push the id;
\* Conjunction asserts the slot is unset, then registers it as Low.
register_input_module(m, module) ==
    IF m.variant = "Conjunction"
    THEN IF module \notin DOMAIN m.memory
         THEN [panic |-> "index", module |-> m]
         ELSE IF m.memory[module] # "None"
         THEN [panic |-> "assert", module |-> m]
         ELSE [panic |-> "none",
               module |-> [m EXCEPT !.total_registered = @ + 1,
                                    !.memory[module] = "Low",
                                    !.inputs = Append(@, module)]]
    ELSE [panic |-> "none", module |-> [m EXCEPT !.inputs = Append(@, module)]]

\* The (source id, output id) pairs of set_up_modules' registration loop, in
\* loop order: declared modules ascending, each one's outputs in order.
RECURSIVE EdgesFrom(_, _)
EdgesFrom(outputs, i) ==
    IF i > Len(outputs)
    THEN <<>>
    ELSE [k \in 1..Len(outputs[i]) |-> <<i - 1, outputs[i][k]>>]
         \o EdgesFrom(outputs, i + 1)

\* set_up_modules' registration loop over the remaining pairs
RECURSIVE RegisterAll(_, _, _)
RegisterAll(modules, edges, k) ==
    IF k > Len(edges)
    THEN [panic |-> "none", modules |-> modules]
    ELSE LET src == edges[k][1]
             out == edges[k][2]
             r   == register_input_module(modules[out], src)
         IN  IF r.panic # "none"
             THEN [panic |-> r.panic, modules |-> modules]
             ELSE RegisterAll([modules EXCEPT ![out] = r.module], edges, k + 1)

\* set_up_modules
set_up_modules(lines) ==
    LET mod_names == make_mod_names_map(lines)
        n         == Len(lines)
        debug     == Module_new(n, Line("", "debug", <<>>), mod_names)
        modules   == [id \in 0..n |->
                         IF id < n THEN Module_new(id, lines[id + 1], mod_names)
                                   ELSE debug]
        outputs   == [i \in 1..n |-> modules[i - 1].outputs]
    IN  RegisterAll(modules, EdgesFrom(outputs, 1), 1)

\* Variant of find_broadcaster_module: the position of the last Broadcaster
find_broadcaster_module_last(modules) ==
    CHOOSE i \in DOMAIN modules :
        /\ is_broadcaster(modules[i])
        /\ \A j \in DOMAIN modules : is_broadcaster(modules[j]) => j <= i

\* Variant of find_broadcaster_module: the module named "broadcaster", the
\* last module when there is none
find_broadcaster_module_by_name(modules) ==
    IF \E i \in DOMAIN modules : modules[i].name = "broadcaster"
    THEN CHOOSE i \in DOMAIN modules : modules[i].name = "broadcaster"
    ELSE CHOOSE i \in DOMAIN modules : \A j \in DOMAIN modules : j <= i

\* find_broadcaster_module: the position of the first Broadcaster (the
\* appended debug module is one, so the unwrap never fails)
find_broadcaster_module(modules) ==
    CHOOSE i \in DOMAIN modules :
        /\ is_broadcaster(modules[i])
        /\ \A j \in DOMAIN modules : is_broadcaster(modules[j]) => i <= j

\* find_with_name: the position of the first module of that name
find_with_name(modules, name) ==
    CHOOSE i \in DOMAIN modules :
        /\ modules[i].name = name
        /\ \A j \in DOMAIN modules : modules[j].name = name => i <= j

\* modules.iter().map(|m| m.get_pulse_counts()).sum()
RECURSIVE SumCountsUpTo(_, _)
SumCountsUpTo(modules, i) ==
    IF i < 0 THEN ZeroCounter
    ELSE CounterAdd(SumCountsUpTo(modules, i - 1), modules[i].counts)
get_pulse_counts_sum(modules) ==
    SumCountsUpTo(modules, Cardinality(DOMAIN modules) - 1)

\* modules.iter().all(|m| m.is_in_initial_state())
all_in_initial_state(modules) ==
    \A i \in DOMAIN modules : is_in_initial_state(modules[i])

\* ---------------------------------------------------------------- analyzer

\* num::integer::lcm and the gcd it divides by
RECURSIVE Gcd(_, _)
Gcd(a, b) == IF b = 0 THEN a ELSE Gcd(b, a % b)
Lcm(a, b) == IF a = 0 \/ b = 0 THEN 0 ELSE (a \div Gcd(a, b)) * b

\* periods.iter().map(|(_, p)| *p).reduce(num::integer::lcm): the fold over
\* the first k periods (k >= 1)
RECURSIVE LcmUpTo(_, _)
LcmUpTo(periods, k) ==
    IF k = 1 THEN periods[1].period
    ELSE Lcm(LcmUpTo(periods, k - 1), periods[k].period)

\* Itertools::collect_vec: the elements of the iterator, in order, each
\* computed once
collect_vec(s) == s \o <<>>

\* [T]::repeat(n): the slice concatenated n times, nothing shifted
RECURSIVE Repeat(_, _)
Repeat(s, n) == IF n = 0 THEN <<>> ELSE s \o Repeat(s, n - 1)

\* #[derive(PartialOrd, Ord)] on PulseAtTime(usize, Pulse): by offset, then
\* by pulse
PulseAtTimeLess(a, b) ==
    \/ a[1] < b[1]
    \/ a[1] = b[1] /\ PulseRank(a[2]) < PulseRank(b[2])

\* Ord on the (PulseAtTime, usize) pairs the Conjunction sorts
TaggedLess(a, b) ==
    \/ PulseAtTimeLess(a[1], b[1])
    \/ a[1] = b[1] /\ a[2] < b[2]

\* Itertools::sorted (a stable sort): each element goes to the position
\* given by the number of elements before it in the order
Sorted(s, Less(_, _)) ==
    LET n == Len(s)
        Before(j, i) == Less(s[j], s[i]) \/ (~Less(s[i], s[j]) /\ j < i)
        Rank(i) == Cardinality({j \in 1..n : Before(j, i)}) + 1
    IN  collect_vec([k \in 1..n |-> s[CHOOSE i \in 1..n : Rank(i) = k]])

\* flat_map over the periods from the k-th on: each record's pulses repeated
\* full_period / period times
RECURSIVE FlatRepeat(_, _, _)
FlatRepeat(periods, full_period, k) ==
    IF k > Len(periods) THEN <<>>
    ELSE Repeat(periods[k].pulses, full_period \div periods[k].period)
         \o FlatRepeat(periods, full_period, k + 1)

\* What an analysis returns: a (pulses, period) pair, or the panic that
\* ended it ("visited": the visited-stack check, at the named module;
\* "empty": unwrap of the lcm reduction over no periods; "none": no panic).
Schedule(pulses, period) ==
    [error |-> "none", at |-> "", pulses |-> pulses, period |-> period]
Failed(error, at) == [error |-> error, at |-> at, pulses |-> <<>>, period |-> 0]

\* Variant of merge_periods: the flattened entries are not sorted
merge_periods_unsorted(periods) ==
    IF Len(periods) = 0
    THEN Failed("empty", "")
    ELSE LET full_period == LcmUpTo(periods, Len(periods))
         IN  Schedule(collect_vec(FlatRepeat(periods, full_period, 1)), full_period)

\* Variant of merge_periods: no periods merge into the empty schedule of
\* period 1
merge_periods_of_none(periods) ==
    IF Len(periods) = 0
    THEN Schedule(<<>>, 1)
    ELSE LET full_period == LcmUpTo(periods, Len(periods))
         IN  Schedule(Sorted(collect_vec(FlatRepeat(periods, full_period, 1)),
                             PulseAtTimeLess),
                      full_period)

\* merge_periods
merge_periods(periods) ==
    IF Len(periods) = 0
    THEN Failed("empty", "")
    ELSE LET full_period == LcmUpTo(periods, Len(periods))
         IN  Schedule(Sorted(FlatRepeat(periods, full_period, 1), PulseAtTimeLess),
                      full_period)

\* The first panic among the parents' analyses, in input order (the map over
\* the inputs stops at the first that panics)
FirstFailed(parents) ==
    LET bad == {k \in 1..Len(parents) : parents[k].error # "none"}
    IN  IF bad = {} THEN 0 ELSE CHOOSE k \in bad : \A j \in bad : k <= j

\* Variant of Broadcaster::get_presses_required_for_pulse: the root pulses on
\* the second press of every two
Broadcaster_get_presses_late_root(m, parents) ==
    IF Len(m.inputs) = 0
    THEN Schedule(<<<<1, "Low">>>>, 2)
    ELSE IF FirstFailed(parents) # 0
    THEN parents[FirstFailed(parents)]
    ELSE merge_periods(collect_vec(
             [k \in 1..Len(parents) |->
                 [pulses |-> parents[k].pulses, period |-> parents[k].period]]))

\* Broadcaster::get_presses_required_for_pulse, given its parents' analyses
Broadcaster_get_presses(m, parents) ==
    IF Len(m.inputs) = 0
    THEN Schedule(<<<<0, "Low">>>>, 1)
    ELSE IF FirstFailed(parents) # 0
    THEN parents[FirstFailed(parents)]
    ELSE merge_periods(collect_vec(
             [k \in 1..Len(parents) |->
                 [pulses |-> parents[k].pulses, period |-> parents[k].period]]))

\* FlipFlop::get_presses_required_for_pulse, given its parents' analyses
FlipFlop_get_presses(m, parents) ==
    IF FirstFailed(parents) # 0
    THEN parents[FirstFailed(parents)]
    ELSE LET low    == collect_vec(
                 [k \in 1..Len(parents) |->
                     [pulses |-> SelectSeq(parents[k].pulses, LAMBDA p : p[2] = "Low"),
                      period |-> parents[k].period]])
             merge  == merge_periods(low)
             pulses == IF Len(merge.pulses) % 2 = 1
                       THEN Repeat(merge.pulses, 2) ELSE merge.pulses
         IN  IF merge.error # "none"
             THEN merge
             ELSE Schedule(collect_vec(
                               [k \in 1..Len(pulses) |->
                                   <<pulses[k][1], IF k % 2 = 1 THEN "High" ELSE "Low">>]),
                           merge.period)

\* Conjunction::get_presses_required_for_pulse, the enumerate/flat_map: each
\* parent's pulses tagged with the parent's index (0-based), repeated
RECURSIVE FlatRepeatTagged(_, _, _)
FlatRepeatTagged(periods, full_period, k) ==
    IF k > Len(periods) THEN <<>>
    ELSE Repeat(collect_vec([j \in 1..Len(periods[k].pulses) |->
                                <<periods[k].pulses[j], k - 1>>]),
                full_period \div periods[k].period)
         \o FlatRepeatTagged(periods, full_period, k + 1)

\* Variant of the replay loop: the pulse is decided before the slot is set
RECURSIVE ReplayMemory_stale(_, _, _)
ReplayMemory_stale(data, memory, k) ==
    IF k > Len(data) THEN <<>>
    ELSE LET pulse == data[k][1]
             i     == data[k][2]
         IN  << <<pulse[1],
                  IF \E j \in DOMAIN memory : memory[j] = "Low" THEN "High" ELSE "Low">> >>
             \o ReplayMemory_stale(data, [memory EXCEPT ![i] = pulse[2]], k + 1)

\* Conjunction::get_presses_required_for_pulse, the replay loop from the
\* k-th element on
RECURSIVE ReplayMemory(_, _, _)
ReplayMemory(data, memory, k) ==
    IF k > Len(data) THEN <<>>
    ELSE LET pulse == data[k][1]
             i     == data[k][2]
             mem   == [memory EXCEPT ![i] = pulse[2]]
         IN  << <<pulse[1],
                  IF \E j \in DOMAIN mem : mem[j] = "Low" THEN "High" ELSE "Low">> >>
             \o ReplayMemory(data, mem, k + 1)

\* Conjunction::get_presses_required_for_pulse, given its parents' analyses
Conjunction_get_presses(m, parents) ==
    IF FirstFailed(parents) # 0
    THEN parents[FirstFailed(parents)]
    ELSE IF Len(parents) = 0
    THEN Failed("empty", m.name)
    ELSE LET memory      == [i \in 0..(Len(parents) - 1) |-> "Low"]
             full_period == LcmUpTo(parents, Len(parents))
             data        == Sorted(FlatRepeatTagged(parents, full_period, 1), TaggedLess)
         IN  Schedule(ReplayMemory(data, memory, 1), full_period)

\* Variant of Module::get_presses_required_for_pulse: the name is pushed
\* before the stack is searched for it
get_presses_required_for_pulse_pushed_first(modules, id, visited_stack) ==
    Failed("visited", modules[id].name)

\* Module::get_presses_required_for_pulse: the visited-stack check, the
\* push, the dispatch on the variant, the pop.  Every parent is analysed
\* with this module's name on the stack.
RECURSIVE get_presses_required_for_pulse(_, _, _)
get_presses_required_for_pulse(modules, id, visited_stack) ==
    LET m == modules[id]
    IN  IF \E k \in 1..Len(visited_stack) : visited_stack[k] = m.name
        THEN Failed("visited", m.name)
        ELSE LET stack   == Append(visited_stack, m.name)
                 parents == collect_vec(
                     [k \in 1..Len(m.inputs) |->
                         get_presses_required_for_pulse(modules, m.inputs[k], stack)])
             IN  CASE m.variant = "Broadcaster" -> Broadcaster_get_presses(m, parents)
                   [] m.variant = "FlipFlop"    -> FlipFlop_get_presses(m, parents)
                   [] m.variant = "Conjunction" -> Conjunction_get_presses(m, parents)

\* The calls of Module::get_presses_required_for_pulse one analysis makes, as
\* the ids of the modules it is entered for, in call order: the module
\* itself, then (unless the visited-stack check panics) the calls made for
\* its inputs one after the other, up to the first that panics.
RECURSIVE analysis_requests(_, _, _)
RECURSIVE requests_for_inputs(_, _, _, _)
analysis_requests(modules, id, visited_stack) ==
    LET m == modules[id]
    IN  IF \E k \in 1..Len(visited_stack) : visited_stack[k] = m.name
        THEN << id >>
        ELSE << id >> \o requests_for_inputs(modules, m.inputs,
                                             Append(visited_stack, m.name), 1)
requests_for_inputs(modules, inputs, stack, k) ==
    IF k > Len(inputs) THEN <<>>
    ELSE analysis_requests(modules, inputs[k], stack)
         \o IF get_presses_required_for_pulse(modules, inputs[k], stack).error # "none"
            THEN <<>>
            ELSE requests_for_inputs(modules, inputs, stack, k + 1)

\* part_2 after set_up_modules: the analysis of the module named "debug",
\* the first Low entry of its schedule, its offset plus one.  0 stands for
\* the unwrap of a schedule without a Low entry.
FirstLow(pulses) ==
    LET low == {k \in 1..Len(pulses) : pulses[k][2] = "Low"}
    IN  IF low = {} THEN 0 ELSE CHOOSE k \in low : \A j \in low : k <= j

\* ------------------------------------------------------------------ inputs

\* test_part_1_simple
ScenarioA ==
    << Line("", "broadcaster", <<"a", "b", "c">>),
       Line("%", "a", <<"b">>),
       Line("%", "b", <<"c">>),
       Line("%", "c", <<"inv">>),
       Line("&", "inv", <<"a">>) >>

\* test_part_1_advanced, test_part_2
ScenarioB ==
    << Line("", "broadcaster", <<"a">>),
       Line("%", "a", <<"inv", "con">>),
       Line("&", "inv", <<"b">>),
       Line("%", "b", <<"con">>),
       Line("&", "con", <<"output">>) >>

\* A chain of n flip-flops behind the broadcaster, the last one feeding the
\* names in `last`: a binary counter, back in its initial state after 2^n
\* presses.
ChainName(k) == CASE k = 1 -> "f1" [] k = 2 -> "f2" [] k = 3 -> "f3" [] k = 4 -> "f4"
Chain(n, last) ==
    << Line("", "broadcaster", <<"f1">>) >>
    \o [k \in 1..n |-> Line("%", ChainName(k),
                            IF k < n THEN <<ChainName(k + 1)>> ELSE last)]

\* A conjunction that feeds itself.
SelfLoop == << Line("", "broadcaster", <<"a">>), Line("&", "a", <<"a">>) >>

\* The graphs of a broadcaster and two modules a and b, each a flip-flop or
\* a conjunction that feeds the other one, the undeclared name "out", both
\* or nothing.
Markers == {"%", "&"}
OutsTo(other) == { <<>>, <<other>>, <<"out">>, <<other, "out">> }
SmallGraph(bo, ma, ao, mb, bbo) ==
    << Line("", "broadcaster", bo), Line(ma, "a", ao), Line(mb, "b", bbo) >>
\* ... the broadcaster feeding a alone
OneRoot ==
    { SmallGraph(<<"a">>, ma, ao, mb, bbo) :
        ma \in Markers, ao \in OutsTo("b"), mb \in Markers, bbo \in OutsTo("a") }
\* ... the broadcaster feeding a, then b, one of them a flip-flop and the
\* other a conjunction
TwoRoots ==
    { SmallGraph(<<"a", "b">>, mm[1], ao, mm[2], bbo) :
        mm \in { <<"%", "&">>, <<"&", "%">> }, ao \in OutsTo("b"), bbo \in OutsTo("a") }

\* A line whose first character is neither '%' nor '&' nor the start of
\* "broadcaster": "#x -> out".  extract_module_name_from_line removes '%'
\* and '&' only, so the name keeps the character.
UnknownMarker ==
    << Line("", "broadcaster", <<"a">>),
       Line("%", "a", <<"#x">>),
       Line("#", "#x", <<"out">>) >>

\* Two flip-flops feeding each other, and a flip-flop x without inputs
\* declared before them; the conjunction c in front of the sink has x as its
\* first input and a as its second.
CycleBehindOrphan ==
    << Line("", "broadcaster", <<"a">>),
       Line("%", "x", <<"c">>),
       Line("%", "a", <<"b", "c">>),
       Line("%", "b", <<"a">>),
       Line("&", "c", <<"out">>) >>

\* Two lines declaring the same name: the map keeps the second, and with
\* two names in the map the undeclared "out" resolves to id 2, the second c.
DuplicateName ==
    << Line("", "broadcaster", <<"c">>),
       Line("%", "c", <<"out">>),
       Line("&", "c", <<>>) >>

\* The broadcaster naming the same flip-flop twice.
DoubleEdge ==
    << Line("", "broadcaster", <<"a", "a">>),
       Line("%", "a", <<"out">>) >>

\* A line without marker, not named "broadcaster", before the broadcaster's.
EarlyMarkerless ==
    << Line("", "x", <<"a">>),
       Line("", "broadcaster", <<"b">>),
       Line("%", "a", <<>>),
       Line("%", "b", <<"out">>) >>

\* No line without marker, and no undeclared name.
NoMarkerless ==
    << Line("%", "a", <<"b">>),
       Line("%", "b", <<>>) >>

\* The broadcaster names the same Conjunction twice.
TwiceIntoConjunction ==
    << Line("", "broadcaster", <<"c", "c">>),
       Line("&", "c", <<"out">>) >>

\* A FlipFlop names twice a Conjunction that has another input already.
TwiceIntoFedConjunction ==
    << Line("", "broadcaster", <<"a", "c">>),
       Line("%", "a", <<"c", "out", "c">>),
       Line("&", "c", <<"out">>) >>

\* A Conjunction y without inputs, second input of the Conjunction c in
\* front of the sink.
OrphanConjunction ==
    << Line("", "broadcaster", <<"a">>),
       Line("%", "a", <<"c">>),
       Line("&", "y", <<"c">>),
       Line("&", "c", <<"out">>) >>

\* The sink's only parent is a Conjunction whose single input is the
\* broadcaster.
HighOnlyAtSink ==
    << Line("", "broadcaster", <<"c">>),
       Line("&", "c", <<"out">>) >>

\* The sink's only parent is a FlipFlop fed by such a Conjunction.
NothingAtSink ==
    << Line("", "broadcaster", <<"c">>),
       Line("&", "c", <<"f">>),
       Line("%", "f", <<"out">>) >>

Inputs ==
    { ScenarioA, ScenarioB, Chain(2, <<"out">>), Chain(4, <<>>), SelfLoop, UnknownMarker,
      CycleBehindOrphan, DuplicateName, DoubleEdge, EarlyMarkerless, NoMarkerless,
      TwiceIntoConjunction, TwiceIntoFedConjunction, OrphanConjunction,
      HighOnlyAtSink, NothingAtSink }
    \cup OneRoot \cup TwoRoots

\* The period records merge_periods is applied to: period 1..MaxPeriod, at
\* most MaxPulses entries, offsets below the period and in ascending order.
PulsesOfPeriod(period) ==
    UNION { { s \in [1..n -> (0..(period - 1)) \X Pulse] :
                \A k \in 1..(n - 1) : s[k][1] <= s[k + 1][1] } : n \in 0..MaxPulses }
PeriodRecords ==
    UNION { { [pulses |-> s, period |-> period] : s \in PulsesOfPeriod(period) } :
            period \in 1..MaxPeriod }

\* ------------------------------------------------------------------- state

VARIABLES
    entry,            \* the function called: "part_1", "part_2", "merge_periods"
    input,            \* its argument: the graph description
    periods,          \* merge_periods' argument
    pc,               \* where the call is
    modules,          \* part_1's and part_2's `modules`
    queue,            \* part_1's `event_queue`
    broadcaster_id,   \* part_1's `broadcaster_id`
    push_count,       \* part_1's `push_count`
    pulses_per_cycle, \* part_1's `pulses_per_cycle`
    num_cycles,       \* part_1's `num_cycles`
    remaining_pushes, \* part_1's `remaining_pushes`
    rem_i,            \* iterations done of part_1's `for _ in 0..remaining_pushes`
    result,           \* the usize part_1 or part_2 returns
    merged,           \* what merge_periods returns
    panic,            \* the panic that ended the call, "none" while there is none
    pushed,           \* history: events pushed so far
    popped,           \* history: events popped so far
    drained           \* history: events popped by the current drain, counted up
                      \* to MaxDrain and by their parity from there on

vars == << entry, input, periods, pc, modules, queue, broadcaster_id, push_count,
           pulses_per_cycle, num_cycles, remaining_pushes, rem_i, result, merged,
           panic, pushed, popped, drained >>

part1_locals == << push_count, pulses_per_cycle, num_cycles, remaining_pushes, rem_i >>
history == << pushed, popped, drained >>

\* The histories follow a drain for its first MaxDrain deliveries.
Counting == drained < MaxDrain

Init ==
    /\ entry \in {"part_1", "part_2", "merge_periods"}
    /\ IF entry = "merge_periods"
       THEN input = <<>> /\ periods \in PeriodRecords \X PeriodRecords
       ELSE input \in Inputs /\ periods = <<>>
    /\ pc = "start"
    /\ modules = <<>>
    /\ queue = <<>>
    /\ broadcaster_id = 0
    /\ push_count = 0
    /\ pulses_per_cycle = ZeroCounter
    /\ num_cycles = 0
    /\ remaining_pushes = 0
    /\ rem_i = 0
    /\ result = 0
    /\ merged = Schedule(<<>>, 0)
    /\ panic = "none"
    /\ pushed = 0
    /\ popped = 0
    /\ drained = 0

\* ----------------------------------------------------------------- actions

\* part_1 and part_2: let modules = set_up_modules(input), and part_1's
\* find_broadcaster_module, EventQueue::default() and push_count = 0
SetUp ==
    /\ pc = "start"
    /\ entry \in {"part_1", "part_2"}
    /\ LET built == set_up_modules(input)
       IN  IF built.panic # "none"
           THEN /\ pc' = "panicked"
                /\ panic' = built.panic
                /\ UNCHANGED << modules, broadcaster_id >>
           ELSE /\ modules' = built.modules
                /\ panic' = panic
                /\ broadcaster_id' = IF entry = "part_1"
                                     THEN find_broadcaster_module(built.modules)
                                     ELSE broadcaster_id
                /\ pc' = IF entry = "part_1" THEN "loop" ELSE "analyze"
    /\ UNCHANGED << entry, input, periods, queue, part1_locals, result, merged, history >>

\* Variant of part_1's while condition: two presses at least
keep_pressing_twice(count, mods) == count < 2 \/ ~all_in_initial_state(mods)

\* Variant of part_1's while condition: no first press is forced
keep_pressing_unforced(count, mods) == ~all_in_initial_state(mods)

\* part_1's while condition
keep_pressing(count, mods) == count = 0 \/ ~all_in_initial_state(mods)

\* event_queue.push(broadcaster_id, broadcaster_id, Pulse::Low)
Bootstrap ==
    /\ queue' = push(queue, << Event(broadcaster_id, broadcaster_id, "Low") >>)
    /\ pushed' = pushed + 1
    /\ drained' = 0
    /\ UNCHANGED popped

\* part_1's detection loop: the condition holds, the bootstrap event is pushed
P1_Press ==
    /\ pc = "loop"
    /\ keep_pressing(push_count, modules)
    /\ Bootstrap
    /\ pc' = "drain"
    /\ UNCHANGED << panic, entry, input, periods, modules, broadcaster_id, part1_locals,
                    result, merged >>

\* part_1's detection loop ends on its condition
P1_LoopExit ==
    /\ pc = "loop"
    /\ ~keep_pressing(push_count, modules)
    /\ pc' = "after_loop"
    /\ UNCHANGED << panic, entry, input, periods, modules, queue, broadcaster_id,
                    part1_locals, result, merged, history >>

\* Variant of the drain's loop condition: the drain stops one event early
DrainDone_early(q) == Len(q) <= 1

\* EventQueue::drain's loop condition: pop() returned None
DrainDone(q) == Len(q) = 0

\* One iteration of EventQueue::drain: pop the oldest event, deliver it to
\* its target
Deliver ==
    /\ pc \in {"drain", "rem_drain"}
    /\ ~DrainDone(queue)
    /\ LET e == pop(queue).event
           r == Module_receive_pulse(modules[e.target], e.from, e.pulse)
       IN  IF r.panic # "none"
           THEN /\ pc' = "panicked"
                /\ panic' = r.panic
                /\ queue' = pop(queue).queue
                /\ UNCHANGED << modules, history >>
           ELSE /\ pc' = pc
                /\ panic' = panic
                /\ queue' = push(pop(queue).queue, r.pushed)
                /\ modules' = [modules EXCEPT ![e.target] =
                                  IF Counting THEN r.module
                                  ELSE [r.module EXCEPT !.counts = modules[e.target].counts]]
                /\ pushed' = IF Counting THEN pushed + Len(r.pushed) ELSE pushed
                /\ popped' = IF Counting THEN popped + 1 ELSE popped
                /\ drained' = IF Counting THEN drained + 1
                               ELSE MaxDrain + ((drained + 1 - MaxDrain) % 2)
    /\ UNCHANGED << entry, input, periods, broadcaster_id, part1_locals, result, merged >>

\* Variant of the return of the detection loop's drain: no break at the
\* press budget
P1_DrainReturn_no_break ==
    /\ pc = "drain"
    /\ DrainDone(queue)
    /\ push_count' = push_count + 1
    /\ pc' = "loop"
    /\ UNCHANGED << panic, entry, input, periods, modules, queue, broadcaster_id,
                    pulses_per_cycle, num_cycles, remaining_pushes, rem_i, result,
                    merged, history >>

\* The drain of the detection loop returns: push_count += 1, and the break
\* at the press budget
P1_DrainReturn ==
    /\ pc = "drain"
    /\ DrainDone(queue)
    /\ push_count' = push_count + 1
    /\ pc' = IF push_count' = NumPresses THEN "after_loop" ELSE "loop"
    /\ UNCHANGED << panic, entry, input, periods, modules, queue, broadcaster_id,
                    pulses_per_cycle, num_cycles, remaining_pushes, rem_i, result,
                    merged, history >>

\* part_1 between its loops: pulses_per_cycle, num_cycles, remaining_pushes.
\* 1000 / push_count panics on push_count = 0.
P1_Extrapolate ==
    /\ pc = "after_loop"
    /\ IF push_count = 0
       THEN /\ pc' = "panicked"
            /\ panic' = "div0"
            /\ UNCHANGED << pulses_per_cycle, num_cycles, remaining_pushes >>
       ELSE /\ panic' = panic
            /\ pulses_per_cycle' = get_pulse_counts_sum(modules)
            /\ num_cycles' = NumPresses \div push_count
            /\ remaining_pushes' = NumPresses - num_cycles' * push_count
            /\ pc' = "rem_loop"
    /\ UNCHANGED << entry, input, periods, modules, queue, broadcaster_id, push_count,
                    rem_i, result, merged, history >>

\* part_1's remainder loop: one more bootstrap event
P1_RemPress ==
    /\ pc = "rem_loop"
    /\ rem_i < remaining_pushes
    /\ Bootstrap
    /\ pc' = "rem_drain"
    /\ UNCHANGED << panic, entry, input, periods, modules, broadcaster_id, part1_locals,
                    result, merged >>

\* The drain of the remainder loop returns
P1_RemDrainReturn ==
    /\ pc = "rem_drain"
    /\ DrainDone(queue)
    /\ rem_i' = rem_i + 1
    /\ pc' = "rem_loop"
    /\ UNCHANGED << panic, entry, input, periods, modules, queue, broadcaster_id, push_count,
                    pulses_per_cycle, num_cycles, remaining_pushes, result, merged,
                    history >>

\* Variant of part_1's result: every cycle is extrapolated, the simulated
\* one included
part_1_total_all_cycles(mods, per_cycle, cycles) ==
    CounterAdd(get_pulse_counts_sum(mods), CounterMul(per_cycle, cycles))

\* part_1's result: the sum of the counters plus the extrapolated cycles
part_1_total(mods, per_cycle, cycles) ==
    CounterAdd(get_pulse_counts_sum(mods), CounterMul(per_cycle, cycles - 1))

\* part_1 returns
P1_Return ==
    /\ pc = "rem_loop"
    /\ rem_i = remaining_pushes
    /\ result' = CounterProduct(part_1_total(modules, pulses_per_cycle, num_cycles))
    /\ pc' = "done"
    /\ UNCHANGED << panic, entry, input, periods, modules, queue, broadcaster_id,
                    part1_locals, merged, history >>

\* part_2 after set_up_modules: the schedule of the module named "debug"
part_2_schedule(mods) ==
    get_presses_required_for_pulse(mods, find_with_name(mods, "debug"), <<>>)

\* Variant of part_2 after set_up_modules: the offset is returned as it is
P2_Analyze_offset ==
    /\ pc = "analyze"
    /\ LET s == part_2_schedule(modules)
       IN  IF s.error # "none"
           THEN pc' = "panicked" /\ panic' = s.error /\ UNCHANGED result
           ELSE IF FirstLow(s.pulses) = 0
           THEN pc' = "panicked" /\ panic' = "nolow" /\ UNCHANGED result
           ELSE /\ pc' = "done"
                /\ panic' = panic
                /\ result' = s.pulses[FirstLow(s.pulses)][1]
    /\ UNCHANGED << entry, input, periods, modules, queue, broadcaster_id,
                    part1_locals, merged, history >>

\* Variant of part_2 after set_up_modules: without a Low entry the first
\* press is returned
P2_Analyze_or_first ==
    /\ pc = "analyze"
    /\ LET s == part_2_schedule(modules)
       IN  IF s.error # "none"
           THEN pc' = "panicked" /\ panic' = s.error /\ UNCHANGED result
           ELSE /\ pc' = "done"
                /\ panic' = panic
                /\ result' = IF FirstLow(s.pulses) = 0 THEN 1
                             ELSE s.pulses[FirstLow(s.pulses)][1] + 1
    /\ UNCHANGED << entry, input, periods, modules, queue, broadcaster_id,
                    part1_locals, merged, history >>

\* part_2 after set_up_modules
P2_Analyze ==
    /\ pc = "analyze"
    /\ LET s == part_2_schedule(modules)
       IN  IF s.error # "none"
           THEN pc' = "panicked" /\ panic' = s.error /\ UNCHANGED result
           ELSE IF FirstLow(s.pulses) = 0
           THEN pc' = "panicked" /\ panic' = "nolow" /\ UNCHANGED result
           ELSE /\ pc' = "done"
                /\ panic' = panic
                /\ result' = s.pulses[FirstLow(s.pulses)][1] + 1
    /\ UNCHANGED << entry, input, periods, modules, queue, broadcaster_id,
                    part1_locals, merged, history >>

\* merge_periods(periods)
CallMergePeriods ==
    /\ pc = "start"
    /\ entry = "merge_periods"
    /\ merged' = merge_periods(periods)
    /\ pc' = "done"
    /\ UNCHANGED << panic, entry, input, periods, modules, queue, broadcaster_id,
                    part1_locals, result, history >>

Next ==
    \/ SetUp
    \/ P1_Press
    \/ P1_LoopExit
    \/ Deliver
    \/ P1_DrainReturn
    \/ P1_Extrapolate
    \/ P1_RemPress
    \/ P1_RemDrainReturn
    \/ P1_Return
    \/ P2_Analyze
    \/ CallMergePeriods

Spec == Init /\ [][Next]_vars

\* The simulation is one thread that takes its next step whenever it has one:
\* a pending event is delivered, a drained press returns, the next press
\* follows.
FairSpec ==
    /\ Spec
    /\ WF_vars(Deliver)
    /\ WF_vars(P1_Press \/ P1_LoopExit \/ P1_DrainReturn)
    /\ WF_vars(P1_Extrapolate \/ P1_RemPress \/ P1_RemDrainReturn \/ P1_Return)

\* --------------------------------------------- the simulator as a function

\* EventQueue::drain from a given queue: the modules when the queue is empty
\* (or after `fuel` deliveries, or at a panic)
RECURSIVE drain(_, _, _)
drain(mods, q, fuel) ==
    IF DrainDone(q) \/ fuel = 0
    THEN mods
    ELSE LET e == pop(q).event
             r == Module_receive_pulse(mods[e.target], e.from, e.pulse)
         IN  IF r.panic # "none"
             THEN mods
             ELSE drain([mods EXCEPT ![e.target] = r.module],
                        push(pop(q).queue, r.pushed), fuel - 1)

\* One button press: the bootstrap event pushed, the queue drained
press(mods, bid) == drain(mods, << Event(bid, bid, "Low") >>, MaxDrain)

\* F(v), with v evaluated before F is entered
Then(v, F(_)) == CHOOSE r \in {F(x) : x \in {v}} : TRUE

\* n button presses delivered one after another: the first half of them,
\* then the rest
RECURSIVE presses(_, _, _)
presses(mods, bid, n) ==
    IF n = 0 THEN mods
    ELSE IF n = 1 THEN press(mods, bid)
    ELSE Then(presses(mods, bid, n \div 2),
              LAMBDA half : presses(half, bid, n - (n \div 2)))

\* The modules right after construction, for a description that builds
built_modules(lines) == set_up_modules(lines).modules

\* ------------------------------------------------------------------ claims

\* C1: when part_1 returns, the low and high totals it computed with the
\* cycle shortcut (one cycle's counts times the whole cycles, plus the
\* remainder presses replayed) are the totals of 1000 presses delivered one
\* after another from the initial state.
C1_ShortcutEqualsDirect ==
    (entry = "part_1" /\ pc = "done") =>
        part_1_total(modules, pulses_per_cycle, num_cycles)
            = get_pulse_counts_sum(presses(built_modules(input), broadcaster_id, NumPresses))

\* C1's case: part_1 has returned after extrapolating several whole cycles
\* and replaying a remainder.
C1_Witness ==
    /\ entry = "part_1" /\ pc = "done"
    /\ num_cycles > 1 /\ remaining_pushes > 0 /\ rem_i = remaining_pushes

\* C2: part_1 returns 32000000 for the graph of test_part_1_simple and
\* 11687500 for the graph of test_part_1_advanced, the product of the Low and
\* High pulses delivered over 1000 presses, and panics on neither.
C2_ScenarioProducts ==
    (entry = "part_1" /\ input \in {ScenarioA, ScenarioB}) =>
        /\ pc # "panicked"
        /\ pc = "done" =>
            /\ input = ScenarioA => result = 32000000
            /\ input = ScenarioB => result = 11687500
            /\ result = CounterProduct(get_pulse_counts_sum(
                            presses(built_modules(input), broadcaster_id, NumPresses)))

\* C2's case: part_1 has returned for the second graph.
C2_Witness == entry = "part_1" /\ pc = "done" /\ input = ScenarioB

\* The module the simulator's pulses to undeclared names end in, and the Low
\* pulses delivered to it by the first n presses on a description
LowsToSink(lines, n) ==
    LET mods == built_modules(lines)
    IN  presses(mods, find_broadcaster_module(mods), n)[find_with_name(mods, "debug")]
            .counts.low

\* C3 (as claimed): the value part_2 returns is the number of the first
\* button press during which the simulator delivers a Low pulse to the sink.
C3_Part2IsFirstLowPress ==
    (entry = "part_2" /\ pc = "done") =>
        /\ LowsToSink(input, result) > 0
        /\ LowsToSink(input, result - 1) = 0

\* The entries of a schedule at offset n with pulse p
CountAt(pulses, n, p) == Cardinality({k \in 1..Len(pulses) : pulses[k] = <<n, p>>})

\* C4 (as claimed): merge_periods of two records of periods P1 and P2 returns
\* a record of period lcm(P1, P2) that lists, at every offset n below it,
\* exactly the pulses of the first record at n mod P1 and of the second at
\* n mod P2.
C4_MergedSamplesParents ==
    (entry = "merge_periods" /\ pc = "done") =>
        LET P1 == periods[1].period
            P2 == periods[2].period
        IN  /\ merged.error = "none"
            /\ merged.period = Lcm(P1, P2)
            /\ \A n \in 0..(Lcm(P1, P2) - 1), p \in Pulse :
                   CountAt(merged.pulses, n, p)
                       = CountAt(periods[1].pulses, n % P1, p)
                         + CountAt(periods[2].pulses, n % P2, p)

\* A step of the drain that delivers the oldest event without a panic, the
\* module it is delivered to, and the events the step pushed
Delivery == pc \in {"drain", "rem_drain"} /\ ~DrainDone(queue) /\ pc' # "panicked"
Receiver == modules[Head(queue).target]
NewEvents == SubSeq(queue', Len(queue), Len(queue'))

\* The inputs a Conjunction remembers High, and its registered inputs
RememberedHigh(m) == {i \in DOMAIN m.memory : m.memory[i] = "High"}
Registered(m) == {i \in DOMAIN m.memory : m.memory[i] # "None"}

\* C5: on every reception a Conjunction stores the received pulse in the
\* sender's slot and then emits, to each output, Low if and only if as many
\* inputs are remembered High as are registered, and High otherwise.
C5_ConjunctionEmitsLowIffAllHigh ==
    [][ (Delivery /\ Receiver.variant = "Conjunction") =>
            LET e     == Head(queue)
                after == modules'[e.target]
                sent  == IF Cardinality(RememberedHigh(after))
                              = Cardinality(Registered(after))
                         THEN "Low" ELSE "High"
            IN  /\ after.memory[e.from] = e.pulse
                /\ Len(NewEvents) = Len(after.outputs)
                /\ \A k \in 1..Len(NewEvents) : NewEvents[k].pulse = sent ]_vars

\* C5's case: a Low pulse emitted by a Conjunction with two registered
\* inputs is in the queue.
C5_Witness ==
    \E k \in 1..Len(queue) :
        /\ modules[queue[k].from].variant = "Conjunction"
        /\ modules[queue[k].from].total_registered >= 2
        /\ queue[k].pulse = "Low"

\* C6: every Conjunction's num_high is the number of its registered inputs
\* remembered High, between 0 and total_registered (the number of registered
\* inputs), and the decrement has never underflowed.
C6_NumHighConsistent ==
    /\ panic # "overflow"
    /\ \A i \in DOMAIN modules :
           modules[i].variant = "Conjunction" =>
               /\ modules[i].num_high = Cardinality(RememberedHigh(modules[i]))
               /\ modules[i].total_registered = Cardinality(Registered(modules[i]))
               /\ modules[i].total_registered = Len(modules[i].inputs)
               /\ 0 <= modules[i].num_high
               /\ modules[i].num_high <= modules[i].total_registered

\* C6's case: after some presses a Conjunction with two registered inputs
\* remembers one of them High and the other Low.
C6_Witness ==
    /\ push_count >= 1
    /\ \E i \in DOMAIN modules :
           /\ modules[i].variant = "Conjunction"
           /\ modules[i].total_registered = 2
           /\ modules[i].num_high = 1

\* C7: delivering a High pulse to a FlipFlop pushes no event and changes no
\* module but for the pulse counter of the FlipFlop.
C7_FlipFlopIgnoresHigh ==
    [][ (Delivery /\ Receiver.variant = "FlipFlop" /\ Head(queue).pulse = "High") =>
            LET t == Head(queue).target
            IN  /\ modules'[t].state = modules[t].state
                /\ queue' = Tail(queue)
                /\ modules' = [modules EXCEPT ![t].counts = modules'[t].counts] ]_vars

\* C7's case: the oldest event is a High pulse for a FlipFlop that is on.
C7_Witness ==
    /\ pc \in {"drain", "rem_drain"} /\ ~DrainDone(queue)
    /\ Receiver.variant = "FlipFlop"
    /\ Receiver.state = "High"
    /\ Head(queue).pulse = "High"
    /\ Head(queue).from # Head(queue).target

\* C8: a delivery removes the oldest event and leaves the other pending
\* events in place; what the reaction pushes goes behind them, one event per
\* declared output of the receiver in declared order (or nothing); and the
\* bootstrap event goes to the back of the queue too.
C8_StrictFifo ==
    [][ /\ Delivery =>
            LET e == Head(queue)
            IN  /\ SubSeq(queue', 1, Len(queue) - 1) = Tail(queue)
                /\ \/ NewEvents = <<>>
                   \/ /\ Len(NewEvents) = Len(Receiver.outputs)
                      /\ \A k \in 1..Len(NewEvents) :
                             /\ NewEvents[k].from = e.target
                             /\ NewEvents[k].target = Receiver.outputs[k]
        /\ (pc \in {"loop", "rem_loop"} /\ pc' \in {"drain", "rem_drain"}) =>
               queue' = Append(queue, Event(broadcaster_id, broadcaster_id, "Low")) ]_vars

\* C8's case: three events are pending, pushed by two reactions.
C8_Witness ==
    /\ pc \in {"drain", "rem_drain"}
    /\ Len(queue) >= 3
    /\ queue[1].from # queue[3].from

\* The modules a module's outputs lead to, in any number of steps
RECURSIVE ReachIn(_, _, _)
ReachIn(mods, S, n) ==
    IF n = 0 THEN S
    ELSE ReachIn(mods,
                 S \cup UNION { {mods[i].outputs[k] : k \in 1..Len(mods[i].outputs)} :
                                i \in S },
                 n - 1)
Reach(mods, i) ==
    ReachIn(mods, {mods[i].outputs[k] : k \in 1..Len(mods[i].outputs)},
            Cardinality(DOMAIN mods))
Acyclic(mods) == \A i \in DOMAIN mods : i \notin Reach(mods, i)

\* C9 (as claimed): whatever the graph and the state left by earlier
\* presses, the drain started by a button press terminates: the queue
\* eventually becomes empty.
C9_EveryDrainTerminates ==
    [](pc \in {"drain", "rem_drain"} => <>DrainDone(queue))

\* C9 (amended): the drain returns only on an empty queue, so the queue is
\* empty whenever a bootstrap event is about to be pushed; and on a graph
\* whose output edges form no cycle every drain returns.
C9_DrainReturnsOnEmptyQueue ==
    /\ [](pc \in {"loop", "after_loop", "rem_loop", "done"} => Len(queue) = 0)
    /\ []((pc \in {"drain", "rem_drain"} /\ Acyclic(modules))
              => <>(pc \notin {"drain", "rem_drain"}))

\* C9's case: on a graph without cycles a press has drained after several
\* deliveries and the next press is due.
C9_Witness ==
    /\ pc = "loop" /\ push_count >= 1 /\ keep_pressing(push_count, modules)
    /\ Acyclic(modules)
    /\ popped >= 3
    /\ Len(queue) = 0

\* C10: the counters count deliveries, not creations: at every point the
\* counts of all modules add up to the events popped so far, every event
\* pushed is either pending or popped, and when a press is complete every
\* event created has been delivered, one Low at least for every press.
C10_CountedAtDelivery ==
    LET total == get_pulse_counts_sum(modules)
    IN  /\ total.low + total.high = popped
        /\ Counting => pushed = popped + Len(queue)
        /\ pc \in {"loop", "after_loop", "rem_loop", "done"} =>
               /\ pushed = popped
               /\ total.low + total.high = pushed
               /\ total.low >= push_count + rem_i

\* C10's case: in the middle of a later press, events created and not yet
\* delivered.
C10_Witness ==
    /\ pc = "drain" /\ push_count >= 1
    /\ popped >= 5
    /\ pushed > popped

\* Every line of the description declares a name of its own
DistinctNames(lines) == Cardinality(NamesOf(lines)) = Len(lines)

\* Some line names the same declared Conjunction twice among its outputs
NamesConjunctionTwice(lines) ==
    \E i \in 1..Len(lines) : \E k1, k2 \in 1..Len(lines[i].outs) :
        /\ k1 < k2
        /\ lines[i].outs[k1] = lines[i].outs[k2]
        /\ lines[i].outs[k1] \in NamesOf(lines)
        /\ lines[make_mod_names_map(lines)[lines[i].outs[k1]] + 1].marker = "&"

\* C11: on a description with distinct names the collection set_up_modules
\* builds is the declared modules followed by one more module, every
\* output id is an index of the collection, an output naming a declared
\* module is that module's id, and every output naming no declared module
\* is the id of the appended module, the number of declared modules; the
\* construction fails only on the assertion, for a line that names a
\* Conjunction twice, never for an undeclared name.
C11_UndeclaredOutputsShareTheSink ==
    (entry \in {"part_1", "part_2"} /\ pc # "start" /\ DistinctNames(input)) =>
        LET n == Len(input)
            mods == IF modules # <<>> THEN modules ELSE built_modules(input)
        IN  /\ modules = <<>> => (panic = "assert" /\ NamesConjunctionTwice(input))
            /\ DOMAIN mods = 0..n
            /\ mods[n].name = "debug"
            /\ \A i \in 0..(n - 1) :
                   /\ mods[i].name = input[i + 1].name
                   /\ Len(mods[i].outputs) = Len(input[i + 1].outs)
                   /\ \A k \in 1..Len(mods[i].outputs) :
                          /\ mods[i].outputs[k] \in DOMAIN mods
                          /\ IF input[i + 1].outs[k] \in NamesOf(input)
                             THEN /\ mods[i].outputs[k] < n
                                  /\ input[mods[i].outputs[k] + 1].name
                                         = input[i + 1].outs[k]
                             ELSE mods[i].outputs[k] = n

\* C11's case: two declared modules name an undeclared output, and the
\* appended module has both as its inputs.
C11_Witness ==
    /\ pc # "start" /\ entry \in {"part_1", "part_2"}
    /\ DistinctNames(input)
    /\ \E i, j \in 1..Len(input) :
           /\ i # j
           /\ \E k \in 1..Len(input[i].outs) : input[i].outs[k] \notin NamesOf(input)
           /\ \E k \in 1..Len(input[j].outs) : input[j].outs[k] \notin NamesOf(input)
    /\ Len(modules[Len(input)].inputs) >= 2

\* C12 (as claimed): a description with a line whose marker is neither '%',
\* '&' nor empty makes the construction abort: no module collection is
\* produced for it.
C12_UnknownMarkerAborts ==
    (/\ entry \in {"part_1", "part_2"}
     /\ pc # "start"
     /\ \E k \in 1..Len(input) : input[k].marker \notin {"%", "&", ""}) =>
        /\ pc = "panicked"
        /\ modules = <<>>

\* The modules a module's inputs lead back to, in any number of steps
RECURSIVE InputsIn(_, _, _)
InputsIn(mods, S, n) ==
    IF n = 0 THEN S
    ELSE InputsIn(mods,
                  S \cup UNION { {mods[i].inputs[k] : k \in 1..Len(mods[i].inputs)} :
                                 i \in S },
                  n - 1)
Ancestors(mods, i) ==
    InputsIn(mods, {mods[i].inputs[k] : k \in 1..Len(mods[i].inputs)},
             Cardinality(DOMAIN mods))

\* The modules on a cycle of input edges among a module and its ancestors
OnInputCycle(mods, i) ==
    {a \in {i} \cup Ancestors(mods, i) : a \in Ancestors(mods, a)}

\* The module part_2 analyses
Sink == find_with_name(modules, "debug")

\* C13 (as claimed): the analysis stops with the error that names the
\* re-entered module exactly when the ancestors of the analysed module
\* contain a cycle.
C13_ErrorExactlyOnCycles ==
    (entry = "part_2" /\ pc \in {"done", "panicked"} /\ modules # <<>>) =>
        (OnInputCycle(modules, Sink) # {} <=> (pc = "panicked" /\ panic = "visited"))

\* C13 (amended): the visited-stack error is raised only when the ancestors
\* of the analysed module contain a cycle, and it names a module on such a
\* cycle; without a cycle (diamonds included) it is not raised; with a cycle
\* the analysis never returns a schedule: it ends in that error or in the
\* panic of an ancestor without inputs analysed before the cycle was
\* entered; and the analysis always ends, in a schedule or a panic.
C13_ReentryIsAnError ==
    /\ []((entry = "part_2" /\ pc \in {"done", "panicked"} /\ modules # <<>>) =>
            /\ panic = "visited" =>
                   \E a \in OnInputCycle(modules, Sink) :
                       modules[a].name = part_2_schedule(modules).at
            /\ OnInputCycle(modules, Sink) # {} =>
                   (pc = "panicked" /\ panic \in {"visited", "empty"})
            /\ panic = "empty" =>
                   \E a \in Ancestors(modules, Sink) :
                       /\ Len(modules[a].inputs) = 0
                       /\ modules[a].variant # "Broadcaster")
    /\ [][pc = "analyze" => pc' \in {"done", "panicked"}]_vars

\* C13's case: the analysis has ended in the visited-stack error.
C13_Witness ==
    /\ entry = "part_2" /\ pc = "panicked" /\ panic = "visited"
    /\ OnInputCycle(modules, Sink) # {}

\* How often one analysis of the sink enters the analysis of module i
TimesAnalysed(i) ==
    LET trace == analysis_requests(modules, Sink, <<>>)
    IN  Cardinality({k \in 1..Len(trace) : trace[k] = i})

\* C14 (as claimed): in one part_2 call that returns, the analysis of each
\* module is entered at most once.
C14_EachModuleAnalysedOnce ==
    (entry = "part_2" /\ pc = "done") =>
        \A i \in DOMAIN modules : TimesAnalysed(i) <= 1

\* C15: once the modules are built, every pending event addressed to a
\* Conjunction comes from a sender whose memory slot is set, and no delivery
\* has panicked on the slot's index or on its unwrap.
C15_ConjunctionSendersAreRegistered ==
    modules # <<>> =>
        /\ panic \notin {"index", "unwrap"}
        /\ \A k \in 1..Len(queue) :
               modules[queue[k].target].variant = "Conjunction" =>
                   /\ queue[k].from \in DOMAIN modules[queue[k].target].memory
                   /\ modules[queue[k].target].memory[queue[k].from] # "None"

\* C15's case: in a later press the oldest event goes to a Conjunction with
\* two registered inputs, from a sender that is not the broadcaster.
C15_Witness ==
    /\ pc \in {"drain", "rem_drain"} /\ push_count >= 1
    /\ ~DrainDone(queue)
    /\ Receiver.variant = "Conjunction"
    /\ Receiver.total_registered >= 2
    /\ Head(queue).from # broadcaster_id

\* C16: a delivery of Low to a FlipFlop toggles its state and pushes one
\* event per declared output, each carrying the new state (High when it is
\* now on, Low when it is now off); a second Low delivered to it, whoever
\* sends it, brings the state back.
C16_FlipFlopTogglesOnLow ==
    [][ (Delivery /\ Receiver.variant = "FlipFlop" /\ Head(queue).pulse = "Low") =>
            LET t     == Head(queue).target
                after == modules'[t]
            IN  /\ after.state # Receiver.state
                /\ after.state \in Pulse
                /\ Len(NewEvents) = Len(Receiver.outputs)
                /\ \A k \in 1..Len(NewEvents) :
                       /\ NewEvents[k].pulse = after.state
                       /\ NewEvents[k].target = Receiver.outputs[k]
                /\ \A i \in DOMAIN modules :
                       Module_receive_pulse(after, i, "Low").module.state
                           = Receiver.state ]_vars

\* C16's case: the oldest event is a Low pulse for a FlipFlop that is on and
\* has two outputs.
C16_Witness ==
    /\ pc \in {"drain", "rem_drain"} /\ ~DrainDone(queue)
    /\ Receiver.variant = "FlipFlop"
    /\ Receiver.state = "High"
    /\ Len(Receiver.outputs) >= 2
    /\ Head(queue).pulse = "Low"

\* C17: a delivery of pulse p to a Broadcaster pushes one event with pulse p
\* per declared output, the same events whoever the sender is, and changes
\* no module but for the receiver's pulse counter; and every Broadcaster is
\* in its initial state in every state.
C17_BroadcasterRelays ==
    /\ [](\A i \in DOMAIN modules :
              is_broadcaster(modules[i]) => is_in_initial_state(modules[i]))
    /\ [][ (Delivery /\ is_broadcaster(Receiver)) =>
               LET e == Head(queue)
               IN  /\ Len(NewEvents) = Len(Receiver.outputs)
                   /\ \A k \in 1..Len(NewEvents) :
                          NewEvents[k] = Event(e.target, Receiver.outputs[k], e.pulse)
                   /\ \A i \in DOMAIN modules :
                          Module_receive_pulse(Receiver, i, e.pulse).pushed = NewEvents
                   /\ modules' = [modules EXCEPT
                                     ![e.target].counts = modules'[e.target].counts] ]_vars

\* C17's case: the oldest event is a High pulse for a Broadcaster that has
\* an output, sent by another module.
C17_Witness ==
    /\ pc \in {"drain", "rem_drain"} /\ ~DrainDone(queue)
    /\ is_broadcaster(Receiver)
    /\ Len(Receiver.outputs) >= 1
    /\ Head(queue).pulse = "High"
    /\ Head(queue).from # Head(queue).target

\* C18: whatever the variant of the receiver, the events one delivery pushes
\* are none at all (only a FlipFlop receiving High, or a module without
\* outputs) or, for one pulse value, one event per declared output in
\* declared order, from the receiver's own id to that output.
C18_OneEventPerDeclaredOutput ==
    [][ Delivery =>
            LET t == Head(queue).target
            IN  /\ Receiver.id = t
                /\ \/ /\ NewEvents = <<>>
                      /\ \/ Len(Receiver.outputs) = 0
                         \/ Receiver.variant = "FlipFlop" /\ Head(queue).pulse = "High"
                   \/ \E p \in Pulse :
                          /\ Len(NewEvents) = Len(Receiver.outputs)
                          /\ \A k \in 1..Len(NewEvents) :
                                 NewEvents[k] = Event(t, Receiver.outputs[k], p)
                /\ \A k \in 1..Len(NewEvents) :
                       \E j \in 1..Len(Receiver.outputs) :
                           NewEvents[k].target = Receiver.outputs[j] ]_vars

\* C18's case: two events pending that one reaction of a FlipFlop or a
\* Conjunction pushed for two different outputs.
C18_Witness ==
    \E k \in 1..(Len(queue) - 1) :
        /\ queue[k].from = queue[k + 1].from
        /\ queue[k].target # queue[k + 1].target
        /\ ~is_broadcaster(modules[queue[k].from])

\* C19: every module is in its initial state right after construction; in
\* every state a module reports its initial state exactly when its FlipFlop
\* state and its Conjunction memory are what set_up_modules built; and a
\* Conjunction's num_high is 0 exactly when every registered input is
\* remembered Low.
C19_InitialStateIsTheBuiltState ==
    modules # <<>> =>
        LET built == built_modules(input)
        IN  /\ all_in_initial_state(built)
            /\ push_count = 0 /\ pc \in {"loop", "analyze"} => modules = built
            /\ \A i \in DOMAIN modules :
                   /\ is_in_initial_state(modules[i])
                          <=> /\ modules[i].state = built[i].state
                              /\ modules[i].memory = built[i].memory
                   /\ modules[i].variant = "Conjunction" =>
                          (modules[i].num_high = 0
                               <=> \A s \in Registered(modules[i]) :
                                       modules[i].memory[s] = "Low")
            /\ all_in_initial_state(modules)
                   <=> \A i \in DOMAIN modules :
                           /\ modules[i].state = built[i].state
                           /\ modules[i].memory = built[i].memory

\* C19's case: after several presses that moved a Conjunction's memory, all
\* modules are back in their initial state.
C19_Witness ==
    /\ pc = "loop" /\ push_count >= 4
    /\ all_in_initial_state(modules)
    /\ \E i \in DOMAIN modules :
           /\ modules[i].variant = "Conjunction"
           /\ modules[i].total_registered >= 2
           /\ modules[i].counts.high >= 1

\* The events EventQueue::drain delivers, in delivery order
RECURSIVE delivered(_, _, _)
delivered(mods, q, fuel) ==
    IF DrainDone(q) \/ fuel = 0
    THEN <<>>
    ELSE LET e == pop(q).event
             r == Module_receive_pulse(mods[e.target], e.from, e.pulse)
         IN  IF r.panic # "none"
             THEN << e >>
             ELSE << e >> \o delivered([mods EXCEPT ![e.target] = r.module],
                                       push(pop(q).queue, r.pushed), fuel - 1)

\* The events delivered in the j-th press on a description
PressTrace(lines, j) ==
    LET mods == built_modules(lines)
        bid  == find_broadcaster_module(mods)
    IN  delivered(presses(mods, bid, j - 1), << Event(bid, bid, "Low") >>, MaxDrain)

\* C20: when part_1's detection loop ends with all modules in their initial
\* state, its push_count p is the first press after which they are, and the
\* presses repeat with that period: press p + k delivers the events of press
\* k, in the same order, for the k of a whole further period and one more.
C20_CycleIsFirstReturnAndPeriodic ==
    (entry = "part_1" /\ pc = "after_loop" /\ all_in_initial_state(modules)) =>
        LET mods == built_modules(input)
            p    == push_count
        IN  /\ p >= 1
            /\ \A j \in 1..(p - 1) :
                   ~all_in_initial_state(presses(mods, broadcaster_id, j))
            /\ \A k \in 1..(p + 1) : PressTrace(input, p + k) = PressTrace(input, k)

\* C20's case: the detection loop has ended on a cycle of four presses or
\* more.
C20_Witness ==
    /\ entry = "part_1" /\ pc = "after_loop"
    /\ all_in_initial_state(modules)
    /\ push_count >= 4

\* C21: part_1 never simulates more than 1000 presses; its detection loop
\* ends before the 1000th press only on a return to the initial state; and
\* when it ends at the 1000th press there is one cycle, no remainder press,
\* nothing extrapolated: the result is the product of the counts of the
\* 1000 presses simulated.
C21_BudgetBoundsTheSimulation ==
    entry = "part_1" =>
        /\ push_count + rem_i <= NumPresses
        /\ pc = "after_loop" =>
               (push_count = NumPresses \/ all_in_initial_state(modules))
        /\ (pc \in {"rem_loop", "rem_drain", "done"} /\ push_count = NumPresses) =>
               /\ num_cycles = 1
               /\ remaining_pushes = 0
               /\ rem_i = 0
               /\ pc # "rem_drain"
               /\ part_1_total(modules, pulses_per_cycle, num_cycles)
                      = get_pulse_counts_sum(modules)
               /\ popped = get_pulse_counts_sum(modules).low
                               + get_pulse_counts_sum(modules).high
               /\ pc = "done" => result = CounterProduct(get_pulse_counts_sum(modules))

\* C21's case: part_1 has returned after 1000 presses none of which ended
\* with every module in its initial state.
C21_Witness ==
    /\ entry = "part_1" /\ pc = "done"
    /\ push_count = NumPresses
    /\ ~all_in_initial_state(modules)

\* The id of the appended module, the last of the collection
LastId(mods) == Cardinality(DOMAIN mods) - 1

\* The declared modules from id i on that list j among their outputs, each
\* as often as it lists j, in ascending order of id
RECURSIVE SourcesOf(_, _, _)
SourcesOf(mods, j, i) ==
    IF i >= LastId(mods) THEN <<>>
    ELSE LET hits == SelectSeq(mods[i].outputs, LAMBDA o : o = j)
         IN  [k \in 1..Len(hits) |-> i] \o SourcesOf(mods, j, i + 1)

\* C22: once built, the inputs of every module j are the declared modules
\* that list j among their outputs, one entry per listing, in ascending
\* order of source id; so i is an input of j exactly when j is an output of
\* i, and the appended module is an input of no module.
C22_InputsMirrorOutputs ==
    modules # <<>> =>
        /\ \A j \in DOMAIN modules : modules[j].inputs = SourcesOf(modules, j, 0)
        /\ \A i, j \in DOMAIN modules :
               (\E k \in 1..Len(modules[j].inputs) : modules[j].inputs[k] = i)
                   <=> (\E k \in 1..Len(modules[i].outputs) : modules[i].outputs[k] = j)
        /\ \A j \in DOMAIN modules :
               \A k \in 1..Len(modules[j].inputs) : modules[j].inputs[k] # LastId(modules)

\* C22's case: a built module with two inputs, registered from two
\* different declared modules.
C22_Witness ==
    /\ modules # <<>>
    /\ \E j \in DOMAIN modules :
           /\ Len(modules[j].inputs) >= 2
           /\ modules[j].inputs[1] < modules[j].inputs[2]

\* The pulses module f sends to its first output during the n-th press on a
\* description, in sending order
EmittedInPress(lines, f, n) ==
    LET mods == built_modules(lines)
        sent == SelectSeq(PressTrace(lines, n),
                          LAMBDA e : e.from = f /\ e.target = mods[f].outputs[1]
                                     /\ e.from # e.target)
    IN  [k \in 1..Len(sent) |-> sent[k].pulse]

\* The pulses a schedule lists for the n-th press: the entries whose offset
\* is congruent to n - 1 modulo the period, in list order
ScheduledAt(s, n) ==
    LET due == SelectSeq(s.pulses, LAMBDA p : p[1] % s.period = (n - 1) % s.period)
    IN  [k \in 1..Len(due) |-> due[k][2]]

\* The FlipFlops whose one input is the module the button drives, which has
\* no input itself (one Low per press), and which have an output
FedByButton(mods) ==
    {f \in DOMAIN mods :
        /\ mods[f].variant = "FlipFlop"
        /\ mods[f].inputs = << find_broadcaster_module(mods) >>
        /\ mods[find_broadcaster_module(mods)].inputs = <<>>
        /\ mods[find_broadcaster_module(mods)].outputs = << f >>
        /\ Len(mods[f].outputs) >= 1
        /\ mods[f].outputs[1] # f}

\* C23 (as claimed): the schedule the analyzer returns for a FlipFlop fed
\* one Low per press lists, for every press n, the pulses the FlipFlop sends
\* in press n of the simulation: High on odd presses, Low on even ones.
C23_FlipFlopScheduleMatchesSimulation ==
    (entry = "part_2" /\ modules # <<>>) =>
        \A f \in FedByButton(modules) :
            LET s == get_presses_required_for_pulse(modules, f, <<>>)
            IN  /\ s.error = "none"
                /\ \A n \in 1..MaxAhead :
                       ScheduledAt(s, n) = EmittedInPress(input, f, n)

\* A parent's schedule extended to the full period: its entries at their
\* offsets, then again one period later, and so on; each tagged with the
\* parent's index
ShiftedCopies(s, idx, full_period) ==
    LET n == Len(s.pulses)
    IN  [j \in 1..(n * (full_period \div s.period)) |->
            << << s.pulses[((j - 1) % n) + 1][1] + ((j - 1) \div n) * s.period,
                  s.pulses[((j - 1) % n) + 1][2] >>,
               idx >>]

\* The period-extended union of the parents' schedules from the k-th on
RECURSIVE ExtendedUnion(_, _, _)
ExtendedUnion(parents, full_period, k) ==
    IF k > Len(parents) THEN <<>>
    ELSE ShiftedCopies(parents[k], k - 1, full_period)
         \o ExtendedUnion(parents, full_period, k + 1)

\* After the first k events of data every one of the n parents has sent an
\* event and the last one of each is High
AllHighAfter(data, n, k) ==
    \A i \in 0..(n - 1) :
        LET mine == {j \in 1..k : data[j][2] = i}
        IN  /\ mine # {}
            /\ data[CHOOSE j \in mine : \A h \in mine : h <= j][1][2] = "High"

\* The analyses of a module's inputs, made with the module on the stack
ParentSchedules(mods, c) ==
    collect_vec([k \in 1..Len(mods[c].inputs) |->
                    get_presses_required_for_pulse(mods, mods[c].inputs[k],
                                                   << mods[c].name >>)])

\* C24: the schedule the analyzer returns for a Conjunction has the period
\* lcm of its parents' periods and one entry per event of the sorted,
\* period-extended union of the parents' schedules, at the event's offset:
\* Low if, with the event's pulse stored for its parent, every parent's last
\* pulse is High (a parent without an event so far counting as Low), High
\* otherwise.
C24_ConjunctionScheduleReplaysMemory ==
    (entry = "part_2" /\ modules # <<>>) =>
        \A c \in DOMAIN modules :
            (/\ modules[c].variant = "Conjunction"
             /\ get_presses_required_for_pulse(modules, c, <<>>).error = "none") =>
                LET s       == get_presses_required_for_pulse(modules, c, <<>>)
                    parents == ParentSchedules(modules, c)
                    full    == LcmUpTo(parents, Len(parents))
                    data    == Sorted(ExtendedUnion(parents, full, 1), TaggedLess)
                IN  /\ s.period = full
                    /\ Len(s.pulses) = Len(data)
                    /\ \A k \in 1..Len(data) :
                           s.pulses[k] = << data[k][1][1],
                                            IF AllHighAfter(data, Len(parents), k)
                                            THEN "Low" ELSE "High" >>

\* C24's case: a Conjunction with two parents whose schedule has a Low
\* entry after a High one.
C24_Witness ==
    /\ entry = "part_2" /\ modules # <<>>
    /\ \E c \in DOMAIN modules :
           /\ modules[c].variant = "Conjunction"
           /\ Len(modules[c].inputs) >= 2
           /\ LET s == get_presses_required_for_pulse(modules, c, <<>>)
              IN  /\ s.error = "none"
                  /\ \E k \in 2..Len(s.pulses) :
                         s.pulses[k][2] = "Low" /\ s.pulses[1][2] = "High"

\* The offsets of the Low entries of a schedule
LowOffsets(pulses) == {pulses[k][1] : k \in {j \in 1..Len(pulses) : pulses[j][2] = "Low"}}

\* C25: what part_2 returns is the smallest offset among the Low entries of
\* the sink's schedule, plus one; and in whatever merge_periods returns (the
\* sink's schedule is one, or the root's) the first Low entry in list order
\* has the smallest offset among the Low entries.
C25_ResultIsSmallestLowOffsetPlusOne ==
    /\ (entry = "part_2" /\ pc = "done") =>
           LET low == LowOffsets(part_2_schedule(modules).pulses)
           IN  /\ low # {}
               /\ result - 1 \in low
               /\ \A o \in low : result - 1 <= o
    /\ (entry = "merge_periods" /\ pc = "done" /\ LowOffsets(merged.pulses) # {}) =>
           \A o \in LowOffsets(merged.pulses) :
               merged.pulses[FirstLow(merged.pulses)][1] <= o

\* C25's case: part_2 has returned on a sink whose schedule lists a High
\* entry before its first Low one.
C25_Witness ==
    /\ entry = "part_2" /\ pc = "done"
    /\ FirstLow(part_2_schedule(modules).pulses) > 1

\* C26: what merge_periods returns is in ascending order of offset, and it
\* is the same record when the two parent records are given the other way
\* round.
C26_MergeIsSortedAndOrderFree ==
    (entry = "merge_periods" /\ pc = "done") =>
        /\ \A k \in 1..(Len(merged.pulses) - 1) :
               merged.pulses[k][1] <= merged.pulses[k + 1][1]
        /\ merged = merge_periods(<< periods[2], periods[1] >>)

\* C26's case: two different records have been merged, the first one with
\* an entry later than an entry of the second.
C26_Witness ==
    /\ entry = "merge_periods" /\ pc = "done"
    /\ periods[1] # periods[2]
    /\ \E i \in 1..Len(periods[1].pulses), j \in 1..Len(periods[2].pulses) :
           periods[1].pulses[i][1] > periods[2].pulses[j][1]

NoUndeclaredOutput(lines) ==
    \A i \in 1..Len(lines) : \A k \in 1..Len(lines[i].outs) :
        lines[i].outs[k] \in NamesOf(lines)

\* Some line of the description has no '%' or '&' marker
SomeMarkerless(lines) == \E i \in 1..Len(lines) : lines[i].marker \notin {"%", "&"}

\* The counter of the appended module after n presses on a description
SinkCountsAfter(lines, n) ==
    LET mods == built_modules(lines)
    IN  presses(mods, find_broadcaster_module(mods), n)[LastId(mods)].counts

ButtonPress == entry = "part_1" /\ queue = <<>> /\ queue' # <<>>

\* The ids of the Broadcaster-variant modules
BroadcasterIds(mods) == {i \in DOMAIN mods : mods[i].variant = "Broadcaster"}

\* The marker-less lines of a description, as module ids
MarkerlessIds(lines) == {i - 1 : i \in {k \in 1..Len(lines) : lines[k].marker \notin {"%", "&"}}}

\* C29: every line without '%' or '&' builds a Broadcaster-variant module
\* whatever its name, and every button press of part_1 pushes one Low event
\* whose target is the lowest-id Broadcaster-variant module: the first
\* marker-less line (even when a later line is named "broadcaster"), and the
\* appended module when no line is marker-less.
C29_BootstrapGoesToFirstBroadcasterVariant ==
    /\ [](modules # <<>> =>
             /\ \A i \in MarkerlessIds(input) : modules[i].variant = "Broadcaster"
             /\ BroadcasterIds(modules) = MarkerlessIds(input) \cup {LastId(modules)})
    /\ [][ButtonPress =>
             LET e == queue'[1]
             IN  /\ Len(queue') = 1
                 /\ e.pulse = "Low"
                 /\ e.target \in BroadcasterIds(modules)
                 /\ \A j \in BroadcasterIds(modules) : e.target <= j
                 /\ \A j \in DOMAIN modules :
                        (modules[j].name = "broadcaster" /\
                         \E i \in MarkerlessIds(input) : i < j) => e.target # j
                 /\ MarkerlessIds(input) = {} => e.target = LastId(modules)]_vars

\* C29's case: the bootstrap event of a press waits for a marker-less module
\* that is not the one named "broadcaster", which a later line declares.
C29_Witness ==
    /\ entry = "part_1" /\ pc = "drain" /\ Len(queue) = 1 /\ popped = 0
    /\ queue[1].target = queue[1].from
    /\ modules[queue[1].target].name # "broadcaster"
    /\ \E j \in DOMAIN modules : modules[j].name = "broadcaster" /\ j > queue[1].target

\* C30: a delivery leaves every module but the target as it was; of the
\* target it changes the pulse counter (by the delivered pulse), the state
\* of a FlipFlop only, and of a Conjunction only the sender's memory slot
\* and num_high; names, ids, outputs, inputs and the registered total stay.
C30_DeliveryChangesOnlyTheTarget ==
    [][Delivery =>
          LET e      == Head(queue)
              before == modules[e.target]
              after  == modules'[e.target]
          IN  /\ DOMAIN modules' = DOMAIN modules
              /\ \A j \in DOMAIN modules : j # e.target => modules'[j] = modules[j]
              /\ after.name = before.name /\ after.id = before.id
              /\ after.variant = before.variant
              /\ after.outputs = before.outputs /\ after.inputs = before.inputs
              /\ after.total_registered = before.total_registered
              /\ Counting => after.counts = CounterAddPulse(before.counts, e.pulse)
              /\ before.variant # "FlipFlop" => after.state = before.state
              /\ before.variant # "Conjunction" =>
                     after.memory = before.memory /\ after.num_high = before.num_high
              /\ before.variant = "Conjunction" =>
                     /\ DOMAIN after.memory = DOMAIN before.memory
                     /\ \A s \in DOMAIN before.memory :
                            s # e.from => after.memory[s] = before.memory[s]
                     /\ after.memory[e.from] = e.pulse]_vars

\* C30's case: deliveries have reached a Conjunction with several registered
\* inputs, one remembered High and another remembered Low, while a FlipFlop
\* elsewhere is on.
C30_Witness ==
    /\ entry = "part_1" /\ pc = "drain" /\ popped >= 3
    /\ \E c \in DOMAIN modules :
           /\ modules[c].variant = "Conjunction"
           /\ Cardinality(Registered(modules[c])) >= 2
           /\ RememberedHigh(modules[c]) # {}
           /\ RememberedHigh(modules[c]) # Registered(modules[c])
           /\ \E f \in DOMAIN modules :
                  modules[f].variant = "FlipFlop" /\ modules[f].state = "High"

\* C31: when part_1's detection loop has ended push_count is in 1..1000, so
\* the division never fails; afterwards num_cycles >= 1,
\* 0 <= remaining_pushes < push_count, and
\* num_cycles * push_count + remaining_pushes = 1000.
C31_ExtrapolationArithmeticIsSafe ==
    entry = "part_1" =>
        /\ panic # "div0"
        /\ pc \in {"after_loop", "rem_loop", "rem_drain", "done"} =>
               push_count \in 1..NumPresses
        /\ pc \in {"rem_loop", "rem_drain", "done"} =>
               /\ num_cycles >= 1
               /\ num_cycles - 1 >= 0
               /\ remaining_pushes >= 0
               /\ remaining_pushes < push_count
               /\ num_cycles * push_count + remaining_pushes = NumPresses

\* C31's case: part_1 has returned after a detection loop whose length does
\* not divide 1000, so several cycles were extrapolated and a remainder
\* simulated.
C31_Witness ==
    /\ entry = "part_1" /\ pc = "done"
    /\ num_cycles > 1
    /\ remaining_pushes > 0
    /\ rem_i = remaining_pushes

\* The entries of a sequence are pairwise different
NoRepeats(s) == \A i, j \in 1..Len(s) : i # j => s[i] # s[j]

C33_SinkIsAlwaysThereAndInert ==
    /\ [](modules # <<>> =>
             LET sink == modules[LastId(modules)]
             IN  /\ DOMAIN modules = 0..Len(input)
                 /\ sink.name = "debug" /\ sink.id = Len(input)
                 /\ sink.variant = "Broadcaster"
                 /\ sink.outputs = <<>>
                 /\ is_in_initial_state(sink)
                 /\ \A p \in Pulse : \A from \in DOMAIN modules :
                        LET r == Module_receive_pulse(sink, from, p)
                        IN  /\ r.panic = "none"
                            /\ r.pushed = <<>>
                            /\ r.module = [sink EXCEPT !.counts = CounterAddPulse(@, p)])
    /\ [][(Delivery /\ Head(queue).target = LastId(modules)) =>
             /\ queue' = Tail(queue)
             /\ is_in_initial_state(modules'[LastId(modules)])
             /\ Counting => modules'[LastId(modules)].counts
                                = CounterAddPulse(modules[LastId(modules)].counts,
                                                  Head(queue).pulse)]_vars

\* C33's case: the appended module has been delivered Low and High pulses.
C33_Witness ==
    /\ entry = "part_1" /\ modules # <<>>
    /\ modules[LastId(modules)].counts.low >= 1
    /\ modules[LastId(modules)].counts.high >= 1
    /\ modules[LastId(modules)].name = "debug"

\* A FlipFlop or Conjunction that no module outputs into
Orphans(mods) ==
    {i \in DOMAIN mods : mods[i].variant # "Broadcaster" /\ Len(mods[i].inputs) = 0}

\* C34: the analysis of a FlipFlop or Conjunction without inputs ends in the
\* unwrap of the reduction over no periods; when part_2's analysis of the
\* sink enters such a module this is the panic part_2 ends with, and part_2
\* returns no value on any graph where such a module is an ancestor of the
\* sink.
C34_AnalysisOfOrphanAborts ==
    modules # <<>> =>
        \A i \in Orphans(modules) :
            /\ get_presses_required_for_pulse(modules, i, <<>>).error = "empty"
            /\ (entry = "part_2" /\ TimesAnalysed(i) >= 1) =>
                   /\ part_2_schedule(modules).error = "empty"
                   /\ pc # "analyze" => (pc = "panicked" /\ panic = "empty" /\ result = 0)
            /\ (entry = "part_2" /\ i \in Ancestors(modules, Sink) /\ pc # "analyze") =>
                   (pc = "panicked" /\ pc # "done" /\ result = 0)

\* C34's case: part_2 has ended in that panic on a graph where the module
\* without inputs is a Conjunction, analysed after a sibling whose analysis
\* returned.
C34_Witness ==
    /\ entry = "part_2" /\ pc = "panicked" /\ panic = "empty"
    /\ \E i \in Orphans(modules) :
           /\ modules[i].variant = "Conjunction"
           /\ TimesAnalysed(i) = 1
           /\ Len(analysis_requests(modules, Sink, <<>>)) >= 5

\* C35: when the schedule computed for the sink has no Low entry part_2
\* ends in the unwrap of the missing entry and returns nothing; a value it
\* returns is the offset plus one of a Low entry of that schedule, the first
\* one.
C35_NoLowEntryAborts ==
    (entry = "part_2" /\ modules # <<>> /\ pc # "analyze") =>
        LET s == part_2_schedule(modules)
        IN  /\ (s.error = "none" /\ \A k \in 1..Len(s.pulses) : s.pulses[k][2] # "Low") =>
                   (pc = "panicked" /\ panic = "nolow" /\ result = 0)
            /\ pc = "done" =>
                   /\ s.error = "none"
                   /\ \E k \in 1..Len(s.pulses) :
                          /\ s.pulses[k] = <<result - 1, "Low">>
                          /\ \A j \in 1..(k - 1) : s.pulses[j][2] # "Low"
            /\ panic = "nolow" => (pc = "panicked" /\ s.error = "none")

\* C35's case: part_2 has ended in that unwrap on a schedule that has
\* entries, all of them High.
C35_Witness ==
    /\ entry = "part_2" /\ pc = "panicked" /\ panic = "nolow"
    /\ part_2_schedule(modules).error = "none"
    /\ Len(part_2_schedule(modules).pulses) >= 1
    /\ \A k \in 1..Len(part_2_schedule(modules).pulses) :
           part_2_schedule(modules).pulses[k][2] = "High"

=============================================================================
